---- MODULE Spec2Model ----
(***************************************************************************)
(* Reports view of the nightclub management dashboard                      *)
(* (src/src/components/Reports.tsx): the transaction and check-in tables   *)
(* of the hosted database, the React state of the Reports component, and   *)
(* one report load (loadReportsData) with its three concurrent fetches.    *)
(*                                                                         *)
(* Modelling conventions                                                   *)
(*   - money is a whole number of currency units;                          *)
(*   - a calendar date "YYYY-MM-DD" is a day number, an instant of a JS    *)
(*     Date is a number of hours since 00:00 UTC of day 0;                 *)
(*   - an ISO timestamp string is [day, tod]: tod ranks the text after the *)
(*     date in string order (see DateOnly, EndOfDay);                      *)
(*   - a JS object used as a map is the sequence of its entries in         *)
(*     insertion order (Object.entries order for non-numeric keys);        *)
(*   - a quotient a / b is kept as the fraction [num |-> a, den |-> b].    *)
(***************************************************************************)
EXTENDS Integers, Sequences, FiniteSets, TLC

\* ------------------------------------------------------------------------
\* Bounds of the model
\* ------------------------------------------------------------------------
MaxDay == 2
MaxTx == 2
MaxCheckIns == 1

Days == 0 .. MaxDay

Min(a, b) == IF a <= b THEN a ELSE b

\* ------------------------------------------------------------------------
\* Timestamps as stored strings, compared as strings by the database
\* ------------------------------------------------------------------------
\* rank of the text that follows "YYYY-MM-DD" in a stored or queried string:
\*   DateOnly    ""                 (the gte bound, a bare date)
\*   Evening     "T21:30:00.000Z"   (a stored instant during the day)
\*   EndOfDay    "T23:59:59"        (the lte bound)
\*   LastSecond  "T23:59:59.500Z"   (a stored instant in the last second)
DateOnly == 0
EndOfDay == 2
Evening == EndOfDay - 1
LastSecond == EndOfDay + 1

StoredTimes == {Evening, LastSecond}

Timestamp(day, tod) == [day |-> day, tod |-> tod]

\* a <= b in string order
TsLeq(a, b) == a.day < b.day \/ (a.day = b.day /\ a.tod <= b.tod)

\* ------------------------------------------------------------------------
\* Records of the database
\* ------------------------------------------------------------------------
PaymentMethodOptions == {"cash", "card"}
MembershipTypeOptions == {"Gold", "Guest"}
FilterAll == "all"
Amounts == {10, 25}

\* Transaction.items is JSON text: ok says whether JSON.parse accepts it,
\* lines is the array it parses to
Payload(lines) == [ok |-> TRUE, lines |-> lines]
Malformed == [ok |-> FALSE, lines |-> << >>]

Line(name, price, quantity) == [name |-> name, price |-> price, quantity |-> quantity]

NoItems == Payload(<< >>)
BeerTwo == Payload(<< Line("Beer", 8, 2) >>)
BeerOne == Payload(<< Line("Beer", 8, 1) >>)
Cocktails == Payload(<< Line("Vodka Tonic", 12, 1), Line("Beer", 8, 1),
                        Line("Mojito", 12, 1) >>)
SoftRound == Payload(<< Line("Soft Drink", 5, 1), Line("Bottled Water", 3, 1),
                        Line("Fresh Juice", 6, 1), Line("Rum & Coke", 10, 1) >>)

ItemPayloads == { NoItems, BeerTwo, BeerOne, Cocktails, SoftRound }

Transaction(day, tod, mt, pm, amount, refund, items) ==
    [ transactionDate |-> Timestamp(day, tod),
      membershipType |-> mt,
      paymentMethod |-> pm,
      finalAmount |-> amount,
      isRefund |-> refund,
      items |-> items ]

CheckIn(day, tod) == [ checkInTime |-> Timestamp(day, tod) ]

\* ------------------------------------------------------------------------
\* Array helpers
\* ------------------------------------------------------------------------
RECURSIVE Reverse(_)
Reverse(s) == IF s = << >> THEN << >> ELSE Append(Reverse(Tail(s)), Head(s))

\* Array.prototype.reduce((sum, t) => sum + Number(t.finalAmount), 0)
RECURSIVE ReduceFinalAmount(_, _)
ReduceFinalAmount(s, sum) ==
    IF s = << >> THEN sum
    ELSE ReduceFinalAmount(Tail(s), sum + Head(s).finalAmount)

\* Array.prototype.sort((a, b) => b[field] - a[field]): descending by the
\* field, and stable (ECMAScript 2019): x is put before the first element it
\* is strictly greater than, so after every element of equal value.
RECURSIVE InsertDescBy(_, _, _)
InsertDescBy(sorted, x, field) ==
    IF sorted = << >> THEN << x >>
    ELSE IF Head(sorted)[field] - x[field] < 0 THEN << x >> \o sorted
         ELSE << Head(sorted) >> \o InsertDescBy(Tail(sorted), x, field)

RECURSIVE SortDescBy(_, _)
SortDescBy(s, field) ==
    IF s = << >> THEN << >>
    ELSE InsertDescBy(SortDescBy(SubSeq(s, 1, Len(s) - 1), field), s[Len(s)], field)

Slice(s, n) == SubSeq(s, 1, Min(n, Len(s)))

\* a / b of two numbers, and a number as such a value
Quotient(a, b) == [num |-> a, den |-> b]
Number(n) == [num |-> n, den |-> 1]
\* equal as numbers; a quotient by zero (NaN, Infinity) equals no number
SameNumber(x, y) == x.den # 0 /\ y.den # 0 /\ x.num * y.den = y.num * x.den

\* ------------------------------------------------------------------------
\* JS Date in the browser's time zone
\* ------------------------------------------------------------------------
\* A time zone: the local clock is UTC + base hours before the instant
\* dstAt and UTC + base + shift hours from it on (shift = 0: no change).
HoursPerDay == 24

TimeZone(base, dstAt, shift) == [base |-> base, dstAt |-> dstAt, shift |-> shift]

UTC == TimeZone(0, 0, 0)
\* America/New_York, clocks go forward at 02:00 EST (07:00 UTC) of day k
NewYorkSpring(k) == TimeZone(0 - 5, HoursPerDay * k + 7, 1)
\* Europe/Berlin, clocks go back at 03:00 CEST (01:00 UTC) of day k
BerlinAutumn(k) == TimeZone(2, HoursPerDay * k + 1, 0 - 1)

TimeZones == {UTC} \cup {NewYorkSpring(k) : k \in Days} \cup {BerlinAutumn(k) : k \in Days}

Offset(zone, t) == zone.base + (IF t >= zone.dstAt THEN zone.shift ELSE 0)

\* the instant of a local time: the offset before the change is used for a
\* local time before the change, for a repeated one and for a skipped one
LocalToUTC(zone, local) ==
    LET early == local - zone.base
        late == local - (zone.base + zone.shift)
    IN  IF early < zone.dstAt THEN early
        ELSE IF late >= zone.dstAt THEN late
        ELSE early

\* new Date("YYYY-MM-DD"): midnight UTC of that date
NewDate(day) == HoursPerDay * day

\* d.setDate(d.getDate() + 1): the same local clock time on the next local day
SetDateNext(zone, t) == LocalToUTC(zone, t + Offset(zone, t) + HoursPerDay)

\* d.toISOString().split('T')[0]: the UTC date of the instant
DateStr(t) == t \div HoursPerDay

\* ------------------------------------------------------------------------
\* blink.db.<table>.list({ where: { <field>: { gte, lte } } })
\* ------------------------------------------------------------------------
ListTransactions(table, gte, lte) ==
    SelectSeq(table, LAMBDA t : TsLeq(gte, t.transactionDate) /\ TsLeq(t.transactionDate, lte))

ListCheckIns(table, gte, lte) ==
    SelectSeq(table, LAMBDA c : TsLeq(gte, c.checkInTime) /\ TsLeq(c.checkInTime, lte))

\* orderBy: { transactionDate: 'desc' }, rows of equal date in table order
RECURSIVE InsertByDateDesc(_, _)
InsertByDateDesc(sorted, x) ==
    IF sorted = << >> THEN << x >>
    ELSE IF ~TsLeq(x.transactionDate, Head(sorted).transactionDate) THEN << x >> \o sorted
         ELSE << Head(sorted) >> \o InsertByDateDesc(Tail(sorted), x)

RECURSIVE OrderByDateDesc(_)
OrderByDateDesc(s) ==
    IF s = << >> THEN << >>
    ELSE InsertByDateDesc(OrderByDateDesc(SubSeq(s, 1, Len(s) - 1)), s[Len(s)])

\* the list call of loadTransactions: the rows from startDate to
\* endDate + 'T23:59:59', latest first
AllTransactions(table, range) ==
    OrderByDateDesc(ListTransactions(table, Timestamp(range.startDate, DateOnly),
                                     Timestamp(range.endDate, EndOfDay)))

\* the where clause of the day queries of loadDailyReports
DayTransactions(table, dateStr) ==
    ListTransactions(table, Timestamp(dateStr, DateOnly), Timestamp(dateStr, EndOfDay))

DayCheckIns(table, dateStr) ==
    ListCheckIns(table, Timestamp(dateStr, DateOnly), Timestamp(dateStr, EndOfDay))

\* ------------------------------------------------------------------------
\* Aggregation of loadDailyReports and calculateStats
\* ------------------------------------------------------------------------
\* a fault: the refunds filter keeps every transaction
RefundsUnfiltered(txs) == txs

\* filter(t => Number(t.isRefund) === 0) and filter(t => Number(t.isRefund) === 1)
Sales(txs) == SelectSeq(txs, LAMBDA t : t.isRefund = 0)
Refunds(txs) == SelectSeq(txs, LAMBDA t : t.isRefund = 1)

\* position of key in the entries of a map, 0 when it has none
KeyIndex(entries, key) ==
    IF \E i \in 1 .. Len(entries) : entries[i].key = key
    THEN CHOOSE i \in 1 .. Len(entries) : entries[i].key = key
    ELSE 0

\* a fault: the revenue of a line is its price, the quantity forgotten
CountLineUnitPrice(itemCounts, line) ==
    LET i == KeyIndex(itemCounts, line.name)
        seeded == IF i = 0
                  THEN Append(itemCounts, [key |-> line.name, quantity |-> 0, revenue |-> 0])
                  ELSE itemCounts
        j == IF i = 0 THEN Len(seeded) ELSE i
    IN  [seeded EXCEPT ![j].quantity = @ + line.quantity,
                       ![j].revenue = @ + line.price]

\* the body of items.forEach: one item line added to itemCounts
CountLine(itemCounts, line) ==
    LET i == KeyIndex(itemCounts, line.name)
        seeded == IF i = 0
                  THEN Append(itemCounts, [key |-> line.name, quantity |-> 0, revenue |-> 0])
                  ELSE itemCounts
        j == IF i = 0 THEN Len(seeded) ELSE i
    IN  [seeded EXCEPT ![j].quantity = @ + line.quantity,
                       ![j].revenue = @ + line.price * line.quantity]

RECURSIVE CountLines(_, _)
CountLines(itemCounts, lines) ==
    IF lines = << >> THEN itemCounts
    ELSE CountLines(CountLine(itemCounts, Head(lines)), Tail(lines))

\* sales.forEach(t => JSON.parse(t.items || '[]').forEach(...))
RECURSIVE CountItems(_, _)
CountItems(itemCounts, sales) ==
    IF sales = << >> THEN itemCounts
    ELSE CountItems(CountLines(itemCounts, Head(sales).items.lines), Tail(sales))

\* JSON.parse throws on the items of one of the sales
ParseThrows(sales) == \E i \in 1 .. Len(sales) : ~sales[i].items.ok

TopItemsLimit == 5

ItemEntry(e) == [item |-> e.key, quantity |-> e.quantity, revenue |-> e.revenue]

MapItemEntries(entries) == [i \in 1 .. Len(entries) |-> ItemEntry(entries[i])]

\* a fault: the ranking is not cut to its first entries
TopItemsUncut(sales) ==
    SortDescBy(MapItemEntries(CountItems(<< >>, sales)), "revenue")

TopItems(sales) ==
    Slice(SortDescBy(MapItemEntries(CountItems(<< >>, sales)), "revenue"), TopItemsLimit)

\* a fault: the transaction that seeds a method's entry is not counted
CountPaymentSeedOnly(paymentCounts, t) ==
    LET i == KeyIndex(paymentCounts, t.paymentMethod)
    IN  IF i = 0
        THEN Append(paymentCounts, [key |-> t.paymentMethod, amount |-> t.finalAmount, count |-> 0])
        ELSE [paymentCounts EXCEPT ![i].amount = @ + t.finalAmount, ![i].count = @ + 1]

\* the body of dayTransactions.forEach: one transaction added to paymentCounts
CountPayment(paymentCounts, t) ==
    LET i == KeyIndex(paymentCounts, t.paymentMethod)
        seeded == IF i = 0
                  THEN Append(paymentCounts, [key |-> t.paymentMethod, amount |-> 0, count |-> 0])
                  ELSE paymentCounts
        j == IF i = 0 THEN Len(seeded) ELSE i
    IN  [seeded EXCEPT ![j].amount = @ + t.finalAmount, ![j].count = @ + 1]

RECURSIVE CountPayments(_, _)
CountPayments(paymentCounts, txs) ==
    IF txs = << >> THEN paymentCounts
    ELSE CountPayments(CountPayment(paymentCounts, Head(txs)), Tail(txs))

PaymentEntry(e) == [method |-> e.key, amount |-> e.amount, count |-> e.count]

MapPaymentEntries(entries) == [i \in 1 .. Len(entries) |-> PaymentEntry(entries[i])]

\* a fault: the entries are left in the order the methods were met
PaymentMethodsUnsorted(txs) == MapPaymentEntries(CountPayments(<< >>, txs))

PaymentMethods(txs) == SortDescBy(MapPaymentEntries(CountPayments(<< >>, txs)), "amount")

\* a fault: memberCheckIns counts the day's transactions
DailyReportCheckInsOfTransactions(dateStr, dayTransactions, dayCheckIns) ==
    LET totalSales == ReduceFinalAmount(Sales(dayTransactions), 0)
        totalRefunds == ReduceFinalAmount(Refunds(dayTransactions), 0)
    IN  [ date |-> dateStr,
          totalSales |-> totalSales,
          totalRefunds |-> totalRefunds,
          netRevenue |-> totalSales - totalRefunds,
          transactionCount |-> Len(dayTransactions),
          memberCheckIns |-> Len(dayTransactions),
          topItems |-> TopItems(Sales(dayTransactions)),
          paymentMethods |-> PaymentMethods(dayTransactions) ]

\* the object pushed to reports for one day
DailyReport(dateStr, dayTransactions, dayCheckIns) ==
    LET totalSales == ReduceFinalAmount(Sales(dayTransactions), 0)
        totalRefunds == ReduceFinalAmount(Refunds(dayTransactions), 0)
    IN  [ date |-> dateStr,
          totalSales |-> totalSales,
          totalRefunds |-> totalRefunds,
          netRevenue |-> totalSales - totalRefunds,
          transactionCount |-> Len(dayTransactions),
          memberCheckIns |-> Len(dayCheckIns),
          topItems |-> TopItems(Sales(dayTransactions)),
          paymentMethods |-> PaymentMethods(dayTransactions) ]

\* the Avg Transaction figure of a report card
AvgTransaction(report) ==
    IF report.transactionCount > 0
    THEN Quotient(report.netRevenue, report.transactionCount)
    ELSE Number(0)

\* a fault: the revenue per check-in is divided without the test for zero
RevenuePerCheckInUnguarded(report) ==
    Quotient(report.netRevenue, report.memberCheckIns)

\* the Revenue/Check-in figure of a report card
RevenuePerCheckIn(report) ==
    IF report.memberCheckIns > 0
    THEN Quotient(report.netRevenue, report.memberCheckIns)
    ELSE Number(0)

\* one key's running total: counts[key] = (counts[key] || 0) + finalAmount
AddAmount(counts, key, amount) ==
    LET i == KeyIndex(counts, key)
    IN  IF i = 0 THEN Append(counts, [key |-> key, total |-> amount])
        ELSE [counts EXCEPT ![i].total = @ + amount]

RECURSIVE MembershipCounts(_, _)
MembershipCounts(counts, txs) ==
    IF txs = << >> THEN counts
    ELSE MembershipCounts(AddAmount(counts, Head(txs).membershipType, Head(txs).finalAmount),
                          Tail(txs))

RECURSIVE PaymentTotals(_, _)
PaymentTotals(counts, txs) ==
    IF txs = << >> THEN counts
    ELSE PaymentTotals(AddAmount(counts, Head(txs).paymentMethod, Head(txs).finalAmount),
                       Tail(txs))

\* a fault: among entries of equal total the one met last comes first
TopKeyLastOfEqual(counts) ==
    IF counts = << >> THEN "None" ELSE SortDescBy(Reverse(counts), "total")[1].key

\* Object.entries(counts).sort(([,a], [,b]) => b - a)[0]?.[0] || 'None'
TopKey(counts) ==
    IF counts = << >> THEN "None" ELSE SortDescBy(counts, "total")[1].key

InitialStats ==
    [ totalSales |-> 0, totalRefunds |-> 0, netRevenue |-> 0, totalTransactions |-> 0,
      averageTransaction |-> Number(0), topMembershipType |-> "", topPaymentMethod |-> "" ]

\* a fault: refunds are added to the net revenue
CalculateStatsRefundsAdded(txs) ==
    LET totalSales == ReduceFinalAmount(Sales(txs), 0)
        totalRefunds == ReduceFinalAmount(Refunds(txs), 0)
        netRevenue == totalSales + totalRefunds
    IN  [ totalSales |-> totalSales,
          totalRefunds |-> totalRefunds,
          netRevenue |-> netRevenue,
          totalTransactions |-> Len(txs),
          averageTransaction |-> IF Len(txs) > 0 THEN Quotient(netRevenue, Len(txs))
                                 ELSE Number(0),
          topMembershipType |-> TopKey(MembershipCounts(<< >>, txs)),
          topPaymentMethod |-> TopKey(PaymentTotals(<< >>, txs)) ]

\* a fault: the average is taken without the test for an empty list
CalculateStatsUnguarded(txs) ==
    LET totalSales == ReduceFinalAmount(Sales(txs), 0)
        totalRefunds == ReduceFinalAmount(Refunds(txs), 0)
        netRevenue == totalSales - totalRefunds
    IN  [ totalSales |-> totalSales,
          totalRefunds |-> totalRefunds,
          netRevenue |-> netRevenue,
          totalTransactions |-> Len(txs),
          averageTransaction |-> Quotient(netRevenue, Len(txs)),
          topMembershipType |-> TopKey(MembershipCounts(<< >>, txs)),
          topPaymentMethod |-> TopKey(PaymentTotals(<< >>, txs)) ]

\* the object calculateStats passes to setStats, from the transactions it reads
CalculateStats(txs) ==
    LET totalSales == ReduceFinalAmount(Sales(txs), 0)
        totalRefunds == ReduceFinalAmount(Refunds(txs), 0)
        netRevenue == totalSales - totalRefunds
    IN  [ totalSales |-> totalSales,
          totalRefunds |-> totalRefunds,
          netRevenue |-> netRevenue,
          totalTransactions |-> Len(txs),
          averageTransaction |-> IF Len(txs) > 0 THEN Quotient(netRevenue, Len(txs))
                                 ELSE Number(0),
          topMembershipType |-> TopKey(MembershipCounts(<< >>, txs)),
          topPaymentMethod |-> TopKey(PaymentTotals(<< >>, txs)) ]

\* a fault: the rows that pass the filters come out oldest first
ApplyFiltersReversed(all, memberType, paymentMethod) ==
    LET byType == IF memberType # FilterAll
                  THEN SelectSeq(all, LAMBDA t : t.membershipType = memberType)
                  ELSE all
    IN  Reverse(IF paymentMethod # FilterAll
                THEN SelectSeq(byType, LAMBDA t : t.paymentMethod = paymentMethod)
                ELSE byType)

\* the filters of loadTransactions on the rows the query returned
ApplyFilters(all, memberType, paymentMethod) ==
    LET byType == IF memberType # FilterAll
                  THEN SelectSeq(all, LAMBDA t : t.membershipType = memberType)
                  ELSE all
    IN  IF paymentMethod # FilterAll
        THEN SelectSeq(byType, LAMBDA t : t.paymentMethod = paymentMethod)
        ELSE byType

\* ------------------------------------------------------------------------
\* State
\* ------------------------------------------------------------------------
VARIABLES
    store,                \* rows of the transactions table, in table order
    checkIns,             \* rows of the checkIns table
    zone,                 \* time zone of the browser
    dateRange,            \* useState: { startDate, endDate }
    filterMemberType,     \* useState
    filterPaymentMethod,  \* useState
    transactions,         \* useState
    dailyReports,         \* useState
    stats,                \* useState
    loading,              \* useState
    load,                 \* the loadReportsData call in progress, or the last one
    toast,                \* title of the last toast shown
    exported,             \* the last CSV file handed to the browser
    earlier,              \* a loadReportsData call started before load, if still of interest
    users,                \* rows of the users table
    userProfile,          \* Dashboard useState: null or the profile
    activeTab,            \* Dashboard useState
    cartItems,            \* Dashboard useState
    renderedCart,         \* the cartItems that the handlers of the last render see
    inits                 \* the initializeUser calls in progress

vars == << store, checkIns, zone, dateRange, filterMemberType, filterPaymentMethod,
           transactions, dailyReports, stats, loading, load, toast, exported, earlier,
           users, userProfile, activeTab, cartItems, renderedCart, inits >>

database == << store, checkIns, zone >>
filters == << dateRange, filterMemberType, filterPaymentMethod >>
notices == << toast, exported >>
dashboard == << users, userProfile, activeTab, cartItems, renderedCart, inits >>

\* no toast shown yet, and the titles of the toasts of the component
NoToast == "none"
NoDataToast == "No data to export"
ExportSuccessToast == "Export successful"
ErrorToast == "Error loading reports"

\* exported is empty until a file is downloaded, then holds the last file
NoFile == << >>

\* userProfile before a profile is set, and the Dashboard after construction
\* for a signed-in user whose profile is not stored yet
Null == << >>

InitDashboard ==
    /\ userProfile = Null
    /\ activeTab = "dashboard"
    /\ cartItems = << >>
    /\ renderedCart = << >>
    /\ inits = << >>

\* what the functions of one render see: the state of that render
Closure ==
    [ dateRange |-> dateRange,
      filterMemberType |-> filterMemberType,
      filterPaymentMethod |-> filterPaymentMethod,
      transactions |-> transactions ]

\* load.phase: "none" before the first call, "running", "finished"
\* load.tpc:   loadTransactions  "wait" (list awaited), "done"
\* load.dpc:   loadDailyReports  "tx" (day's transactions awaited), "ci" (day's
\*             check-ins awaited), "done" (setDailyReports called), "failed" (catch)
\* load.d, load.dayTransactions, load.reports: the locals of loadDailyReports
\* load.failedFetch: the list calls of this load that the network rejected
SeqsUpTo(S, n) == UNION { [1 .. k -> S] : k \in 0 .. n }

TransactionsOf(days, tods, types, methods, amounts, refunds, payloads) ==
    { Transaction(day, tod, mt, pm, amount, refund, items) :
        day \in days, tod \in tods, mt \in types, pm \in methods,
        amount \in amounts, refund \in refunds, items \in payloads }

Range(startDate, endDate) == [startDate |-> startDate, endDate |-> endDate]

InitComponent ==
    /\ transactions = << >>
    /\ dailyReports = << >>
    /\ stats = InitialStats
    /\ loading = FALSE
    /\ load = [ phase |-> "none", cl |-> Closure, tpc |-> "done", dpc |-> "done",
                d |-> 0, dayTransactions |-> << >>, reports |-> << >>,
                failedFetch |-> {} ]
    /\ earlier = load
    /\ toast = NoToast
    /\ exported = NoFile
    /\ InitDashboard
    /\ users = << >>

\* sales and refunds of several amounts and payment methods over the days
InitAmounts ==
    /\ store \in SeqsUpTo(TransactionsOf({0, MaxDay}, {Evening}, {"Gold"}, PaymentMethodOptions,
                                          Amounts, {0, 1}, {NoItems}), MaxTx)
    /\ checkIns = << >>
    /\ zone = UTC
    /\ dateRange = Range(0, MaxDay)
    /\ filterMemberType = FilterAll
    /\ filterPaymentMethod = FilterAll

\* sales and refunds with item lines, parseable or not
InitItems ==
    /\ store \in SeqsUpTo(TransactionsOf({0, MaxDay}, {Evening}, {"Gold"}, {"cash"}, {10}, {0, 1},
                                          ItemPayloads \cup {Malformed}), MaxTx)
    /\ checkIns = << >>
    /\ zone = UTC
    /\ dateRange = Range(0, MaxDay)
    /\ filterMemberType = FilterAll
    /\ filterPaymentMethod = FilterAll

\* every date range in every time zone, with check-ins
InitCalendar ==
    /\ store \in SeqsUpTo(TransactionsOf(Days, StoredTimes, {"Gold"}, {"cash"}, {10}, {0},
                                          {BeerOne}), 1)
    /\ checkIns \in SeqsUpTo({ CheckIn(day, Evening) : day \in Days }, MaxCheckIns)
    /\ zone \in TimeZones
    /\ dateRange \in { Range(a, b) : a \in Days, b \in Days }
    /\ filterMemberType = FilterAll
    /\ filterPaymentMethod = FilterAll

\* every setting of the two filters
InitFilters ==
    /\ store \in SeqsUpTo(TransactionsOf({0}, {Evening}, MembershipTypeOptions,
                                          PaymentMethodOptions, {10}, {0, 1}, {NoItems}), MaxTx)
    /\ checkIns = << >>
    /\ zone = UTC
    /\ dateRange = Range(0, 0)
    /\ filterMemberType \in {FilterAll} \cup MembershipTypeOptions
    /\ filterPaymentMethod \in {FilterAll} \cup PaymentMethodOptions

\* three rows of two days and two membership types under the membership filter
InitNarrowing ==
    /\ store \in SeqsUpTo(TransactionsOf({0, MaxDay}, {Evening}, MembershipTypeOptions,
                                          {"cash"}, {10}, {0}, {NoItems}), MaxTx + 1)
    /\ checkIns = << >>
    /\ zone = UTC
    /\ dateRange = Range(0, MaxDay)
    /\ filterMemberType \in {FilterAll} \cup MembershipTypeOptions
    /\ filterPaymentMethod \in {FilterAll, "cash"}

\* sales and refunds of one day, with and without items, for the exports
InitExportData ==
    /\ store \in SeqsUpTo(TransactionsOf({0}, {Evening}, {"Gold"}, PaymentMethodOptions, {10},
                                          {0, 1}, {NoItems, BeerTwo}), MaxTx)
    /\ checkIns = << >>
    /\ zone = UTC
    /\ dateRange = Range(0, 0)
    /\ filterMemberType = FilterAll
    /\ filterPaymentMethod = FilterAll

InitExport == InitExportData /\ InitComponent

Init ==
    /\ InitAmounts \/ InitItems \/ InitCalendar \/ InitFilters \/ InitNarrowing
    /\ InitComponent

\* ------------------------------------------------------------------------
\* loadReportsData
\* ------------------------------------------------------------------------
\* loadReportsData up to the first await of each of its fetches:
\* setLoading(true), loadTransactions issues its query, loadDailyReports
\* enters its loop (or leaves it at once and calls setDailyReports)
LoadReportsData(cl) ==
    LET d == NewDate(cl.dateRange.startDate)
        enters == d <= NewDate(cl.dateRange.endDate)
    IN  /\ loading' = TRUE
        /\ load' = [ phase |-> "running", cl |-> cl, tpc |-> "wait",
                     dpc |-> IF enters THEN "tx" ELSE "done",
                     d |-> IF enters THEN d ELSE 0,
                     dayTransactions |-> << >>, reports |-> << >>,
                     failedFetch |-> {} ]
        /\ dailyReports' = IF enters THEN dailyReports ELSE Reverse(<< >>)
        /\ UNCHANGED << database, transactions, stats, notices, dashboard >>

\* a call made by the current render while no other call is of interest
StartLoad ==
    /\ LoadReportsData(Closure)
    /\ UNCHANGED << filters, earlier >>

\* useEffect(() => { loadReportsData() }, [...]) after the first render
Mount ==
    /\ load.phase = "none"
    /\ StartLoad

\* the Refresh button, disabled while loading
Refresh ==
    /\ load.phase = "finished"
    /\ ~loading
    /\ StartLoad

\* The steps of one loadReportsData call: l is the record of the call and
\* lnext the record after the step.
\* loadTransactions after its await: filter and setTransactions
TransactionsArriveOf(l, lnext) ==
    /\ l.phase = "running"
    /\ l.tpc = "wait"
    /\ LET cl == l.cl
           allTransactions == AllTransactions(store, cl.dateRange)
       IN  transactions' = ApplyFilters(allTransactions, cl.filterMemberType,
                                        cl.filterPaymentMethod)
    /\ lnext = [l EXCEPT !.tpc = "done"]
    /\ UNCHANGED << database, filters, dailyReports, stats, loading, notices, dashboard >>

TransactionsArrive == TransactionsArriveOf(load, load') /\ UNCHANGED earlier

\* loadDailyReports after the await of the day's transactions
DayTransactionsArriveOf(l, lnext) ==
    /\ l.phase = "running"
    /\ l.dpc = "tx"
    /\ lnext = [l EXCEPT !.dayTransactions = DayTransactions(store, DateStr(l.d)),
                         !.dpc = "ci"]
    /\ UNCHANGED << database, filters, transactions, dailyReports, stats, loading, notices,
                    dashboard >>

DayTransactionsArrive == DayTransactionsArriveOf(load, load') /\ UNCHANGED earlier

\* loadDailyReports after the await of the day's check-ins: the rest of the
\* loop body, d.setDate(d.getDate() + 1), the loop test, and after the last
\* day setDailyReports(reports.reverse()); a throw of JSON.parse goes to catch
DayCheckInsArriveOf(l, lnext) ==
    /\ l.phase = "running"
    /\ l.dpc = "ci"
    /\ LET dateStr == DateStr(l.d)
           dayCheckIns == DayCheckIns(checkIns, dateStr)
           reports == Append(l.reports, DailyReport(dateStr, l.dayTransactions, dayCheckIns))
           next == SetDateNext(zone, l.d)
       IN  IF ParseThrows(Sales(l.dayTransactions))
           THEN /\ lnext = [l EXCEPT !.dpc = "failed", !.d = 0,
                                     !.dayTransactions = << >>, !.reports = << >>]
                /\ UNCHANGED dailyReports
           ELSE IF next <= NewDate(l.cl.dateRange.endDate)
           THEN /\ lnext = [l EXCEPT !.dpc = "tx", !.d = next,
                                     !.dayTransactions = << >>, !.reports = reports]
                /\ UNCHANGED dailyReports
           ELSE /\ lnext = [l EXCEPT !.dpc = "done", !.d = 0,
                                     !.dayTransactions = << >>, !.reports = << >>]
                /\ dailyReports' = Reverse(reports)
    /\ UNCHANGED << database, filters, transactions, stats, loading, notices, dashboard >>

DayCheckInsArrive == DayCheckInsArriveOf(load, load') /\ UNCHANGED earlier

\* loadReportsData after await Promise.all([...]): calculateStats() on the
\* transactions of the render that made this call, then setLoading(false).
\* loadTransactions and loadDailyReports catch what their fetches throw and
\* return normally, so Promise.all is fulfilled also after a failed fetch and
\* the catch of loadReportsData with its toast is not entered.
FinishOf(l, lnext) ==
    /\ l.phase = "running"
    /\ l.tpc \in {"done", "failed"}
    /\ l.dpc \in {"done", "failed"}
    /\ stats' = CalculateStats(l.cl.transactions)
    /\ loading' = FALSE
    /\ lnext = [l EXCEPT !.phase = "finished"]
    /\ UNCHANGED << database, filters, transactions, dailyReports, notices, dashboard >>

Finish == FinishOf(load, load') /\ UNCHANGED earlier

Next ==
    \/ Mount
    \/ Refresh
    \/ TransactionsArrive
    \/ DayTransactionsArrive
    \/ DayCheckInsArrive
    \/ Finish

Spec == Init /\ [][Next]_vars

\* ------------------------------------------------------------------------
\* Dashboard: the user profile and the role gates
\* ------------------------------------------------------------------------
MaxRuns == 2

\* the signed-in user, the same at every auth state change
User == [id |-> "u1", email |-> "staff@onish.club"]

Roles == {"cashier", "manager", "admin"}
\* the role column is text: it can hold a role the hierarchy does not know
StoredRoles == Roles \cup {"guest"}

Profile(role) == [id |-> User.id, email |-> User.email, role |-> role]

\* a screen without report data, for the parts of the Dashboard
InitNoReportData ==
    /\ store = << >>
    /\ checkIns = << >>
    /\ zone = UTC
    /\ dateRange = Range(0, 0)
    /\ filterMemberType = FilterAll
    /\ filterPaymentMethod = FilterAll
    /\ transactions = << >>
    /\ dailyReports = << >>
    /\ stats = InitialStats
    /\ loading = FALSE
    /\ load = [ phase |-> "none", cl |-> Closure, tpc |-> "done", dpc |-> "done",
                d |-> 0, dayTransactions |-> << >>, reports |-> << >>,
                failedFetch |-> {} ]
    /\ earlier = load
    /\ toast = NoToast
    /\ exported = NoFile

\* the users table holds no profile of the user, or one with any role
InitProfiles ==
    /\ InitNoReportData
    /\ InitDashboard
    /\ users \in {<< >>} \cup { << Profile(role) >> : role \in StoredRoles }

\* const roleHierarchy = { admin: 3, manager: 2, cashier: 1 }
RoleHierarchy == [admin |-> 3, manager |-> 2, cashier |-> 1]

\* roleHierarchy[role] || 0
Level(role) == IF role \in DOMAIN RoleHierarchy THEN RoleHierarchy[role] ELSE 0

\* a fault: the required level must be exceeded
CanAccessStrict(requiredRole) ==
    LET userRoleLevel == IF userProfile = Null THEN 0 ELSE Level(userProfile[1].role)
        requiredLevel == Level(requiredRole)
    IN  userRoleLevel > requiredLevel

\* canAccess: userProfile?.role is undefined while userProfile is null
CanAccess(requiredRole) ==
    LET userRoleLevel == IF userProfile = Null THEN 0 ELSE Level(userProfile[1].role)
        requiredLevel == Level(requiredRole)
    IN  userRoleLevel >= requiredLevel

\* the entries of the sidebar and the content of the main area
Tabs == {"dashboard", "members", "billing", "checkin", "reports", "settings"}

EntryShown(tab) ==
    CASE tab = "reports" -> CanAccess("manager")
      [] tab = "settings" -> CanAccess("admin")
      [] OTHER -> TRUE

ContentShown(tab) ==
    CASE tab = "reports" -> activeTab = "reports" /\ CanAccess("manager")
      [] tab = "settings" -> activeTab = "settings" /\ CanAccess("admin")
      [] OTHER -> activeTab = tab

\* a click on an entry of the sidebar
SetActiveTab ==
    /\ \E tab \in Tabs : EntryShown(tab) /\ activeTab' = tab
    /\ UNCHANGED << database, filters, transactions, dailyReports, stats, loading, load,
                    notices, earlier, users, userProfile, cartItems, renderedCart, inits >>

\* s without its element at position i
RemoveAt(s, i) == SubSeq(s, 1, i - 1) \o SubSeq(s, i + 1, Len(s))

\* the auth state changes: App passes a new user object and the effect of the
\* Dashboard calls initializeUser, which awaits users.list
AuthStateChanged ==
    /\ Len(inits) < MaxRuns
    /\ inits' = Append(inits, [pc |-> "list"])
    /\ UNCHANGED << database, filters, transactions, dailyReports, stats, loading, load,
                    notices, earlier, users, userProfile, activeTab, cartItems,
                    renderedCart >>

\* initializeUser after await users.list: an existing profile is taken,
\* otherwise users.create is called and awaited
UsersListed ==
    \E i \in 1 .. Len(inits) :
        /\ inits[i].pc = "list"
        /\ LET existingUsers == SelectSeq(users, LAMBDA u : u.email = User.email)
           IN  IF Len(existingUsers) = 0
               THEN /\ inits' = [inits EXCEPT ![i].pc = "create"]
                    /\ UNCHANGED userProfile
               ELSE /\ userProfile' = << existingUsers[1] >>
                    /\ inits' = RemoveAt(inits, i)
        /\ UNCHANGED << database, filters, transactions, dailyReports, stats, loading, load,
                        notices, earlier, users, activeTab, cartItems, renderedCart >>

WelcomeToast == "Welcome to Onish Nightclub!"

\* initializeUser after await users.create: the new profile with the default
\* role is stored and set
UserCreated ==
    \E i \in 1 .. Len(inits) :
        /\ inits[i].pc = "create"
        /\ users' = Append(users, Profile("cashier"))
        /\ userProfile' = << Profile("cashier") >>
        /\ toast' = WelcomeToast
        /\ inits' = RemoveAt(inits, i)
        /\ UNCHANGED << database, filters, transactions, dailyReports, stats, loading, load,
                        exported, earlier, activeTab, cartItems, renderedCart >>

\* users.create rejects (a row with this id is stored already, or the network
\* fails): the catch of initializeUser logs
UserCreateRejected ==
    \E i \in 1 .. Len(inits) :
        /\ inits[i].pc = "create"
        /\ inits' = RemoveAt(inits, i)
        /\ UNCHANGED << database, filters, transactions, dailyReports, stats, loading, load,
                        notices, earlier, users, userProfile, activeTab, cartItems,
                        renderedCart >>

NextProfiles ==
    \/ SetActiveTab
    \/ AuthStateChanged
    \/ UsersListed
    \/ UserCreated
    \/ UserCreateRejected

SpecProfiles == InitProfiles /\ [][NextProfiles]_vars

\* ------------------------------------------------------------------------
\* Dashboard: the cart of the billing tab
\* ------------------------------------------------------------------------
MaxCart == 2

\* three of the buttons of the billing tab
MenuItems ==
    { [name |-> "General Entry", price |-> 25], [name |-> "VIP Entry", price |-> 50],
      [name |-> "Grey Goose Shot", price |-> 18] }

InitBilling ==
    /\ InitNoReportData
    /\ InitDashboard
    /\ users = << >>

\* React renders the Dashboard with the current cartItems; the handlers of
\* the buttons are those of this render
Render ==
    /\ renderedCart # cartItems
    /\ renderedCart' = cartItems
    /\ UNCHANGED << database, filters, transactions, dailyReports, stats, loading, load,
                    notices, earlier, users, userProfile, activeTab, cartItems, inits >>

\* addToCart: setCartItems([...cartItems, { name, price, quantity: 1 }]) with
\* the cartItems of the render the handler belongs to
AddToCart ==
    /\ Len(renderedCart) < MaxCart
    /\ \E item \in MenuItems :
          cartItems' = Append(renderedCart, Line(item.name, item.price, 1))
    /\ UNCHANGED << database, filters, transactions, dailyReports, stats, loading, load,
                    notices, earlier, users, userProfile, activeTab, renderedCart, inits >>

\* removeFromCart(index) from the button of a rendered line
RemoveFromCart ==
    /\ \E index \in 1 .. Len(renderedCart) : cartItems' = RemoveAt(renderedCart, index)
    /\ UNCHANGED << database, filters, transactions, dailyReports, stats, loading, load,
                    notices, earlier, users, userProfile, activeTab, renderedCart, inits >>

\* clearCart, from its button, shown while the rendered cart has lines
ClearCart ==
    /\ renderedCart # << >>
    /\ cartItems' = << >>
    /\ UNCHANGED << database, filters, transactions, dailyReports, stats, loading, load,
                    notices, earlier, users, userProfile, activeTab, renderedCart, inits >>

PaymentToast == "Payment processed successfully!"

\* processPayment: the toast and clearCart(); nothing is sent to the database
ProcessPayment ==
    /\ renderedCart # << >>
    /\ toast' = PaymentToast
    /\ cartItems' = << >>
    /\ UNCHANGED << database, filters, transactions, dailyReports, stats, loading, load,
                    exported, earlier, users, userProfile, activeTab, renderedCart, inits >>

\* cartItems.reduce((sum, item) => sum + item.price * item.quantity, 0)
RECURSIVE ReduceLineTotals(_, _)
ReduceLineTotals(items, sum) ==
    IF items = << >> THEN sum
    ELSE ReduceLineTotals(Tail(items), sum + Head(items).price * Head(items).quantity)

\* getCartTotal of a render
GetCartTotal == ReduceLineTotals(renderedCart, 0)

NextBilling ==
    \/ Render
    \/ AddToCart
    \/ RemoveFromCart
    \/ ClearCart
    \/ ProcessPayment

SpecBilling == InitBilling /\ [][NextBilling]_vars

\* ------------------------------------------------------------------------
\* Filter and date changes while a load is in progress
\* ------------------------------------------------------------------------
InitOverlapData ==
    /\ store \in SeqsUpTo(TransactionsOf({0}, {Evening}, MembershipTypeOptions, {"cash"},
                                          {10}, {0}, {NoItems}), MaxTx)
    /\ checkIns = << >>
    /\ zone = UTC
    /\ dateRange = Range(0, 0)
    /\ filterMemberType = FilterAll
    /\ filterPaymentMethod = FilterAll

InitOverlap == InitOverlapData /\ InitComponent

\* a call in progress
InFlight(l) == l.phase = "running"

\* the membership filter is changed: the next render runs the effect, which
\* calls loadReportsData whether or not an earlier call has returned
ChangeFilterMemberType ==
    /\ load.phase # "none"
    /\ ~InFlight(earlier)
    /\ \E value \in ({FilterAll} \cup MembershipTypeOptions) \ {filterMemberType} :
          /\ filterMemberType' = value
          /\ LoadReportsData([Closure EXCEPT !.filterMemberType = value])
    /\ earlier' = load
    /\ UNCHANGED << dateRange, filterPaymentMethod >>

\* the end date is changed, with the same effect
ChangeEndDate ==
    /\ load.phase # "none"
    /\ ~InFlight(earlier)
    /\ \E endDate \in {0, 1} \ {dateRange.endDate} :
          /\ dateRange' = [dateRange EXCEPT !.endDate = endDate]
          /\ LoadReportsData([Closure EXCEPT !.dateRange.endDate = endDate])
    /\ earlier' = load
    /\ UNCHANGED << filterMemberType, filterPaymentMethod >>

\* the steps of the earlier call
EarlierTransactionsArrive == TransactionsArriveOf(earlier, earlier') /\ UNCHANGED load
EarlierDayTransactionsArrive == DayTransactionsArriveOf(earlier, earlier') /\ UNCHANGED load
EarlierDayCheckInsArrive == DayCheckInsArriveOf(earlier, earlier') /\ UNCHANGED load
EarlierFinish == FinishOf(earlier, earlier') /\ UNCHANGED load

NextOverlap ==
    \/ Next
    \/ ChangeFilterMemberType
    \/ ChangeEndDate
    \/ EarlierTransactionsArrive
    \/ EarlierDayTransactionsArrive
    \/ EarlierDayCheckInsArrive
    \/ EarlierFinish

SpecOverlap == InitOverlap /\ [][NextOverlap]_vars

\* ------------------------------------------------------------------------
\* Stored isRefund values
\* ------------------------------------------------------------------------
\* the column is a number: 0 and 1 are written for sales and refunds, any
\* other number can be stored as well
StoredRefundFlags == {0, 1, 2}

InitRefundFlagsData ==
    /\ store \in SeqsUpTo(TransactionsOf({0}, {Evening}, {"Gold"}, {"cash"}, {10},
                                          StoredRefundFlags, {NoItems}), MaxTx)
    /\ checkIns = << >>
    /\ zone = UTC
    /\ dateRange = Range(0, MaxDay)
    /\ filterMemberType = FilterAll
    /\ filterPaymentMethod = FilterAll

InitRefundFlags == InitRefundFlagsData /\ InitComponent

SpecRefundFlags == InitRefundFlags /\ [][Next]_vars

\* ------------------------------------------------------------------------
\* Rows written to the hosted table while the screen is open
\* ------------------------------------------------------------------------
NewRows == TransactionsOf({0, MaxDay}, {Evening}, {"Gold"}, {"cash"}, {10}, {0}, {NoItems})

InitInsertsData ==
    /\ store \in SeqsUpTo(NewRows, 1)
    /\ checkIns = << >>
    /\ zone = UTC
    /\ dateRange = Range(0, MaxDay)
    /\ filterMemberType = FilterAll
    /\ filterPaymentMethod = FilterAll

InitInserts == InitInsertsData /\ InitComponent

\* another client of the database adds a transaction
InsertTransaction ==
    /\ Len(store) < MaxTx
    /\ \E t \in NewRows : store' = Append(store, t)
    /\ UNCHANGED << checkIns, zone, filters, transactions, dailyReports, stats, loading,
                    load, notices, earlier, dashboard >>

NextInserts ==
    \/ Next
    \/ InsertTransaction

SpecInserts == InitInserts /\ [][NextInserts]_vars

\* ------------------------------------------------------------------------
\* Fetches that the network or the database rejects
\* ------------------------------------------------------------------------
\* two days with and without a sale
InitFailingData ==
    /\ store \in SeqsUpTo(TransactionsOf({0, MaxDay}, {Evening}, {"Gold"}, {"cash"}, {10},
                                          {0}, {NoItems}), MaxTx)
    /\ checkIns \in SeqsUpTo({ CheckIn(0, Evening) }, MaxCheckIns)
    /\ zone = UTC
    /\ dateRange = Range(0, MaxDay)
    /\ filterMemberType = FilterAll
    /\ filterPaymentMethod = FilterAll

InitFailing == InitFailingData /\ InitComponent

\* the list call of loadTransactions rejects: its catch logs, nothing is stored
TransactionsFail ==
    /\ load.phase = "running"
    /\ load.tpc = "wait"
    /\ load' = [load EXCEPT !.tpc = "failed", !.failedFetch = @ \cup {"transactions"}]
    /\ UNCHANGED << database, filters, transactions, dailyReports, stats, loading, notices, earlier, dashboard >>

\* the transactions query of a day rejects: the catch of loadDailyReports
\* logs, the reports built so far are dropped
DayTransactionsFail ==
    /\ load.phase = "running"
    /\ load.dpc = "tx"
    /\ load' = [load EXCEPT !.dpc = "failed", !.d = 0, !.dayTransactions = << >>,
                            !.reports = << >>,
                            !.failedFetch = @ \cup {"dayTransactions"}]
    /\ UNCHANGED << database, filters, transactions, dailyReports, stats, loading, notices, earlier, dashboard >>

\* the check-ins query of a day rejects, with the same outcome
DayCheckInsFail ==
    /\ load.phase = "running"
    /\ load.dpc = "ci"
    /\ load' = [load EXCEPT !.dpc = "failed", !.d = 0, !.dayTransactions = << >>,
                            !.reports = << >>,
                            !.failedFetch = @ \cup {"checkIns"}]
    /\ UNCHANGED << database, filters, transactions, dailyReports, stats, loading, notices, earlier, dashboard >>

NextFailing ==
    \/ Next
    \/ TransactionsFail
    \/ DayTransactionsFail
    \/ DayCheckInsFail

SpecFailing == InitFailing /\ [][NextFailing]_vars

\* ------------------------------------------------------------------------
\* exportToCSV
\* ------------------------------------------------------------------------
\* Object.keys of a transaction row and of a daily report
TransactionKeys ==
    << "membershipType", "items", "finalAmount", "paymentMethod", "transactionDate",
       "isRefund" >>
DailyReportKeys ==
    << "date", "totalSales", "totalRefunds", "netRevenue", "transactionCount",
       "memberCheckIns", "topItems", "paymentMethods" >>
ObjectKeys(row) == IF "date" \in DOMAIN row THEN DailyReportKeys ELSE TransactionKeys

\* typeof of the value under a key
TypeOf(key) ==
    IF key \in {"membershipType", "items", "paymentMethod", "transactionDate", "date"}
    THEN "string"
    ELSE IF key \in {"topItems", "paymentMethods"} THEN "object" ELSE "number"

\* the commas in the JSON text of an items column: two inside each line object
\* {"name":..,"price":..,"quantity":..} and one between two lines
CommasInItems(payload) ==
    IF payload.lines = << >> THEN 0
    ELSE 2 * Len(payload.lines) + (Len(payload.lines) - 1)

\* value.includes(',') of a string value: dates, membership types and
\* payment methods hold no comma
IncludesComma(key, value) == key = "items" /\ CommasInItems(value) > 0

\* the commas in the text that join(',') makes of a value: an array is
\* written as its elements joined by commas, each object as [object Object]
CommasInText(key, value) ==
    CASE TypeOf(key) = "string" -> IF key = "items" THEN CommasInItems(value) ELSE 0
      [] TypeOf(key) = "object" -> IF value = << >> THEN 0 ELSE Len(value) - 1
      [] OTHER -> 0

\* a fault: no value is wrapped in quotes
CellNeverQuoted(key, value) == [value |-> value, quoted |-> FALSE]

\* typeof value === 'string' && value.includes(',') ? `"${value}"` : value
Cell(key, value) ==
    [value |-> value, quoted |-> TypeOf(key) = "string" /\ IncludesComma(key, value)]

\* Object.values(row).map(...) of one row
CsvRow(row) ==
    [ k \in 1 .. Len(ObjectKeys(row)) |-> Cell(ObjectKeys(row)[k], row[ObjectKeys(row)[k]]) ]

\* the file handed to the browser for a non-empty data
CsvFile(data, filename) ==
    [ filename |-> [name |-> filename, startDate |-> dateRange.startDate,
                    endDate |-> dateRange.endDate],
      headers |-> IF data = << >> THEN << >> ELSE ObjectKeys(data[1]),
      rows |-> [i \in 1 .. Len(data) |-> CsvRow(data[i])] ]

\* a fault: an empty data is written to a file like any other
ExportToCSVEmptyFile(data, filename) ==
    /\ exported' = << CsvFile(data, filename) >>
    /\ toast' = ExportSuccessToast

\* exportToCSV: the notice for an empty data, else the download and its toast
ExportToCSV(data, filename) ==
    IF Len(data) = 0
    THEN /\ toast' = NoDataToast
         /\ UNCHANGED exported
    ELSE /\ exported' = << CsvFile(data, filename) >>
         /\ toast' = ExportSuccessToast

\* the Export buttons of the tabs and the data each passes to exportToCSV
ExportButtons ==
    {"all_transactions", "sales_transactions", "refund_transactions", "daily_reports"}

ExportData(button) ==
    CASE button = "all_transactions" -> transactions
      [] button = "sales_transactions" -> Sales(transactions)
      [] button = "refund_transactions" -> Refunds(transactions)
      [] button = "daily_reports" -> dailyReports

Click(button) ==
    /\ ExportToCSV(ExportData(button), button)
    /\ UNCHANGED << database, filters, transactions, dailyReports, stats, loading, load,
                    earlier, dashboard >>

ExportAllTransactions == Click("all_transactions")
ExportSales == Click("sales_transactions")
ExportRefunds == Click("refund_transactions")
ExportDailyReports == Click("daily_reports")

NextExport ==
    \/ Next
    \/ ExportAllTransactions
    \/ ExportSales
    \/ ExportRefunds
    \/ ExportDailyReports

SpecExport == InitExport /\ [][NextExport]_vars

\* ------------------------------------------------------------------------
\* Render
\* ------------------------------------------------------------------------
\* the two ratios of the cards rendered by dailyReports.map
ReportCards ==
    [ i \in 1 .. Len(dailyReports) |->
        [ avgTransaction |-> AvgTransaction(dailyReports[i]),
          revenuePerCheckIn |-> RevenuePerCheckIn(dailyReports[i]) ] ]

\* ------------------------------------------------------------------------
\* Vocabulary of the properties
\* ------------------------------------------------------------------------
RECURSIVE SumOf(_, _)
SumOf(S, f) ==
    IF S = {} THEN 0
    ELSE LET x == CHOOSE x \in S : TRUE IN f[x] + SumOf(S \ {x}, f)

\* sum of finalAmount over the transactions of txs whose isRefund flag is flag
AmountWhere(txs, flag) ==
    SumOf({ i \in 1 .. Len(txs) : txs[i].isRefund = flag },
          [i \in 1 .. Len(txs) |-> txs[i].finalAmount])

\* the transactions the last calculateStats call read
StatsInput == load.cl.transactions

\* calculateStats of the current load has run
StatsComputed == load.phase = "finished"

\* every report held by the component or by the loop in progress
AllReports ==
    { dailyReports[i] : i \in 1 .. Len(dailyReports) }
        \cup { load.reports[i] : i \in 1 .. Len(load.reports) }

\* a step of loadDailyReports that pushes the report of a day, built from
\* load.dayTransactions, and the report it pushes
PushStep == load.phase = "running" /\ load.dpc = "ci" /\ load'.dpc \in {"tx", "done"}
Pushed == IF load'.dpc = "tx" THEN load'.reports[Len(load'.reports)] ELSE dailyReports'[1]

\* ------------------------------------------------------------------------
\* Properties
\* ------------------------------------------------------------------------

\* C1: totalSales is the sum of finalAmount over the transactions with
\* isRefund false (stored 0) and totalRefunds the sum over those with isRefund
\* true (stored 1), in the summary stats for the transactions calculateStats
\* read and in the report of each day for the transactions fetched for that day.
C1_TotalsSplitByRefundFlag ==
    /\ [](StatsComputed =>
            /\ stats.totalSales = AmountWhere(StatsInput, 0)
            /\ stats.totalRefunds = AmountWhere(StatsInput, 1))
    /\ [][PushStep =>
            /\ Pushed.totalSales = AmountWhere(load.dayTransactions, 0)
            /\ Pushed.totalRefunds = AmountWhere(load.dayTransactions, 1)]_vars

\* C1 witness: stats and a daily report that both add up sales and refunds
C1_Witness ==
    /\ StatsComputed
    /\ stats.totalSales > 0 /\ stats.totalRefunds > 0
    /\ Len(StatsInput) = MaxTx
    /\ \E i \in 1 .. Len(dailyReports) :
          dailyReports[i].totalSales > 0 /\ dailyReports[i].totalRefunds > 0

\* C2: netRevenue = totalSales - totalRefunds exactly, in the summary stats
\* and in every daily report.
C2_NetRevenue ==
    /\ stats.netRevenue = stats.totalSales - stats.totalRefunds
    /\ \A r \in AllReports : r.netRevenue = r.totalSales - r.totalRefunds

\* C2 witness: refunds lower the net revenue of the stats and of a daily report
C2_Witness ==
    /\ StatsComputed
    /\ stats.totalRefunds > 0 /\ stats.netRevenue < stats.totalSales
    /\ \E r \in AllReports : r.totalRefunds > 0 /\ r.netRevenue < r.totalSales

\* C3: averageTransaction is netRevenue divided by the number of all
\* transactions (sales and refunds) when there is one, and the number 0 when
\* there is none; one sale of 25 and one refund of 10 give 15 / 2 = 7.5.
C3_AverageTransaction ==
    StatsComputed =>
        LET n == Len(StatsInput)
            net == AmountWhere(StatsInput, 0) - AmountWhere(StatsInput, 1)
        IN  /\ n > 0 => SameNumber(stats.averageTransaction, Quotient(net, n))
            /\ n = 0 => SameNumber(stats.averageTransaction, Number(0))
            /\ ( /\ n = 2
                 /\ \E i, j \in 1 .. n :
                      /\ StatsInput[i].isRefund = 0 /\ StatsInput[i].finalAmount = 25
                      /\ StatsInput[j].isRefund = 1 /\ StatsInput[j].finalAmount = 10 )
                => SameNumber(stats.averageTransaction, Quotient(75, 10))

\* C3 witness: the stats of one sale of 25 and one refund of 10
C3_Witness ==
    /\ StatsComputed
    /\ Len(StatsInput) = 2
    /\ \E i, j \in 1 .. 2 :
          /\ StatsInput[i].isRefund = 0 /\ StatsInput[i].finalAmount = 25
          /\ StatsInput[j].isRefund = 1 /\ StatsInput[j].finalAmount = 10
    /\ stats.netRevenue = 15

\* loadDailyReports of the current load ran its loop to the end, for a range
\* with startDate <= endDate
DailyDone == load.phase # "none" /\ load.dpc = "done"
ValidRange == load.cl.dateRange.startDate <= load.cl.dateRange.endDate
RangeDays == load.cl.dateRange.startDate .. load.cl.dateRange.endDate

\* C4: for startDate <= endDate the reports that loadDailyReports produces are
\* exactly (endDate - startDate) + 1, one for each calendar day of the range,
\* no day missing or repeated.
C4_OneReportPerDay ==
    (DailyDone /\ ValidRange) =>
        /\ Len(dailyReports) = (load.cl.dateRange.endDate - load.cl.dateRange.startDate) + 1
        /\ \A day \in RangeDays :
              Cardinality({ i \in 1 .. Len(dailyReports) : dailyReports[i].date = day }) = 1

\* the number of stored transactions and check-ins dated on a calendar day
TransactionsOn(day) ==
    Cardinality({ i \in 1 .. Len(store) : store[i].transactionDate.day = day })
CheckInsFetchedOn(day) ==
    Cardinality({ i \in 1 .. Len(checkIns) :
                    /\ checkIns[i].checkInTime.day = day
                    /\ checkIns[i].checkInTime.tod <= EndOfDay })

\* the sums and lists of a report are those of a day without transactions
EmptyDayFigures(r) ==
    /\ r.totalSales = 0 /\ r.totalRefunds = 0 /\ r.netRevenue = 0
    /\ r.transactionCount = 0
    /\ r.topItems = << >> /\ r.paymentMethods = << >>

\* C5 as stated: the report of a day with zero transactions has all fields
\* zero, memberCheckIns included, and empty topItems and paymentMethods.
C5_ZeroDayAllZero ==
    \A r \in AllReports :
        TransactionsOn(r.date) = 0 => (EmptyDayFigures(r) /\ r.memberCheckIns = 0)

\* C5 amended: the report of a day with zero transactions has totalSales,
\* totalRefunds, netRevenue and transactionCount zero and empty topItems and
\* paymentMethods; memberCheckIns is the number of check-ins fetched for the
\* day, whatever the transactions.
C5_ZeroDayReport ==
    \A r \in AllReports :
        /\ TransactionsOn(r.date) = 0 => EmptyDayFigures(r)
        /\ r.memberCheckIns = CheckInsFetchedOn(r.date)

\* C5 witness: a reported day with no transaction and a check-in, next to a
\* reported day with a transaction
C5_Witness ==
    /\ DailyDone
    /\ \E i, j \in 1 .. Len(dailyReports) :
          /\ TransactionsOn(dailyReports[i].date) = 0
          /\ dailyReports[i].memberCheckIns > 0
          /\ dailyReports[j].transactionCount > 0

\* the item lines of the sales among txs, as positions << transaction, line >>
SaleLines(txs) ==
    UNION { { << i, j >> : j \in 1 .. Len(txs[i].items.lines) } :
              i \in { k \in 1 .. Len(txs) : txs[k].isRefund = 0 } }
LineAt(txs, p) == txs[p[1]].items.lines[p[2]]
LinesNamed(txs, name) == { p \in SaleLines(txs) : LineAt(txs, p).name = name }
SoldNames(txs) == { LineAt(txs, p).name : p \in SaleLines(txs) }
Earlier(p, q) == p[1] < q[1] \/ (p[1] = q[1] /\ p[2] < q[2])
FirstLine(txs, name) ==
    CHOOSE p \in LinesNamed(txs, name) : \A q \in LinesNamed(txs, name) : p = q \/ Earlier(p, q)

\* C6: topItems of every daily report has at most 5 entries and is sorted
\* non-increasing by revenue; entries of equal revenue are in the order in
\* which their items are first met in the day's sales.
C6_TopItemsRanked ==
    /\ [](\A r \in AllReports :
            /\ Len(r.topItems) <= 5
            /\ \A i, j \in 1 .. Len(r.topItems) :
                  i < j => r.topItems[i].revenue >= r.topItems[j].revenue)
    /\ [][PushStep =>
            \A i, j \in 1 .. Len(Pushed.topItems) :
                (i < j /\ Pushed.topItems[i].revenue = Pushed.topItems[j].revenue) =>
                    Earlier(FirstLine(load.dayTransactions, Pushed.topItems[i].item),
                            FirstLine(load.dayTransactions, Pushed.topItems[j].item))]_vars

\* C6 witness: a report whose topItems were cut to 5 and hold a tie
C6_Witness ==
    \E r \in AllReports :
        /\ Len(r.topItems) = 5
        /\ r.topItems[1].item = "Vodka Tonic" /\ r.topItems[2].item = "Mojito"
        /\ r.topItems[1].revenue = r.topItems[2].revenue

\* C7: topItems is built from the day's sales only: every entry names an
\* item of a sale, no item has two entries, its quantity is the sum of the
\* quantities and its revenue the sum of price * quantity over the sale lines
\* of that name, and with at most 5 items sold each has its entry; two sales
\* of Beer at 8, quantities 2 and 1, give the one entry {Beer, 3, 24}.
C7_TopItemsFromSales ==
    [][PushStep =>
        LET txs == load.dayTransactions
            top == Pushed.topItems
            quantityOf == [p \in SaleLines(txs) |-> LineAt(txs, p).quantity]
            revenueOf == [p \in SaleLines(txs) |-> LineAt(txs, p).price * LineAt(txs, p).quantity]
            saleItems == { i \in 1 .. Len(txs) : txs[i].isRefund = 0 }
        IN  /\ \A k \in 1 .. Len(top) :
                  /\ top[k].item \in SoldNames(txs)
                  /\ top[k].quantity = SumOf(LinesNamed(txs, top[k].item), quantityOf)
                  /\ top[k].revenue = SumOf(LinesNamed(txs, top[k].item), revenueOf)
            /\ \A k, l \in 1 .. Len(top) : top[k].item = top[l].item => k = l
            /\ Cardinality(SoldNames(txs)) <= 5 =>
                  { top[k].item : k \in 1 .. Len(top) } = SoldNames(txs)
            /\ ( /\ Cardinality(saleItems) = 2
                 /\ { txs[i].items : i \in saleItems } = {BeerTwo, BeerOne} )
                => top = << [item |-> "Beer", quantity |-> 3, revenue |-> 24] >>]_vars

\* C7 witness: the report of the day of the two Beer sales
C7_Witness ==
    \E r \in AllReports :
        /\ r.topItems = << [item |-> "Beer", quantity |-> 3, revenue |-> 24] >>
        /\ r.transactionCount = 2

\* C8: in every daily report the counts of the paymentMethods entries sum to
\* transactionCount, which is the number of the day's transactions, sales and
\* refunds.
C8_PaymentCountsSum ==
    /\ [](\A r \in AllReports :
            SumOf(1 .. Len(r.paymentMethods),
                  [k \in 1 .. Len(r.paymentMethods) |-> r.paymentMethods[k].count])
                = r.transactionCount)
    /\ [][PushStep => Pushed.transactionCount = Len(load.dayTransactions)]_vars

\* C8 witness: a report of a day with a sale and a refund paid differently
C8_Witness ==
    \E r \in AllReports :
        /\ r.transactionCount = 2
        /\ Len(r.paymentMethods) = 2
        /\ r.totalSales > 0 /\ r.totalRefunds > 0

\* C9: paymentMethods has exactly one entry for each payment method used by
\* the day's transactions, sales and refunds alike, its amount is the sum
\* of finalAmount of the transactions paid that way, and the entries are
\* sorted non-increasing by amount.
C9_PaymentMethodsOfDay ==
    /\ [][PushStep =>
            LET txs == load.dayTransactions
                pm == Pushed.paymentMethods
                amountOf == [i \in 1 .. Len(txs) |-> txs[i].finalAmount]
            IN  /\ { pm[k].method : k \in 1 .. Len(pm) }
                      = { txs[i].paymentMethod : i \in 1 .. Len(txs) }
                /\ \A k, l \in 1 .. Len(pm) : pm[k].method = pm[l].method => k = l
                /\ \A k \in 1 .. Len(pm) :
                      pm[k].amount =
                          SumOf({ i \in 1 .. Len(txs) : txs[i].paymentMethod = pm[k].method },
                                amountOf)]_vars
    /\ [](\A r \in AllReports :
            \A i, j \in 1 .. Len(r.paymentMethods) :
                i < j => r.paymentMethods[i].amount >= r.paymentMethods[j].amount)

\* C9 witness: a report whose larger amount belongs to the method that was
\* met second, a refund among the day's transactions
C9_Witness ==
    \E r \in AllReports :
        /\ Len(r.paymentMethods) = 2
        /\ r.paymentMethods[1].amount > r.paymentMethods[2].amount
        /\ r.totalRefunds > 0
        /\ \E i, j \in 1 .. Len(store) :
              /\ i < j
              /\ store[i].transactionDate.day = r.date
              /\ store[j].transactionDate.day = r.date
              /\ store[i].paymentMethod = r.paymentMethods[2].method
              /\ store[j].paymentMethod = r.paymentMethods[1].method

\* C10: the daily reports of a range are in strictly decreasing date order,
\* the report of endDate first and the report of startDate last.
C10_MostRecentFirst ==
    (DailyDone /\ ValidRange) =>
        /\ \A i, j \in 1 .. Len(dailyReports) :
              i < j => dailyReports[i].date > dailyReports[j].date
        /\ dailyReports # << >>
        /\ dailyReports[1].date = load.cl.dateRange.endDate
        /\ dailyReports[Len(dailyReports)].date = load.cl.dateRange.startDate

\* loadTransactions of the current load has stored its list in transactions
Stored == load.phase # "none" /\ load.tpc = "done"

\* a row of the table is in the list that loadTransactions stored
Kept(t) == \E j \in 1 .. Len(transactions) : transactions[j] = t

\* the row passes the two filters of the load
PassesFilters(t) ==
    /\ load.cl.filterMemberType = FilterAll \/ t.membershipType = load.cl.filterMemberType
    /\ load.cl.filterPaymentMethod = FilterAll \/ t.paymentMethod = load.cl.filterPaymentMethod

\* C11: loadTransactions keeps a transaction if and only if its date is within
\* the range and the membershipType filter is "all" or equals its
\* membershipType and the paymentMethod filter is "all" or equals its
\* paymentMethod.
C11_KeptIffInRangeAndMatching ==
    Stored =>
        \A i \in 1 .. Len(store) :
            Kept(store[i]) <=>
                (store[i].transactionDate.day \in RangeDays /\ PassesFilters(store[i]))

\* the rows the query of the current load returned, latest first
T == AllTransactions(store, load.cl.dateRange)

\* r holds elements of s only, in the order they have in s
IsSubsequence(r, s) ==
    \E f \in [1 .. Len(r) -> 1 .. Len(s)] :
        /\ \A k \in 1 .. Len(r) : r[k] = s[f[k]]
        /\ \A k, l \in 1 .. Len(r) : k < l => f[k] < f[l]

\* C12: the list the filters return holds only records of T, in the relative
\* order they have in T, and with both filters "all" it is T unchanged.
C12_PureNarrowing ==
    Stored =>
        /\ IsSubsequence(transactions, T)
        /\ (load.cl.filterMemberType = FilterAll /\ load.cl.filterPaymentMethod = FilterAll)
              => transactions = T

\* two rows of different days kept in the order of T, a third row dropped
C12_Witness ==
    /\ Stored
    /\ load.cl.filterMemberType # FilterAll
    /\ Len(T) = 3
    /\ Len(transactions) = 2
    /\ transactions[1].transactionDate.day > transactions[2].transactionDate.day
    /\ T[2] # transactions[1] /\ T[2] # transactions[2]

\* C13: the range is inclusive on both ends by calendar day: with no filter
\* set, a transaction is listed exactly when its transactionDate is on a day
\* from startDate through endDate, and the query of a single day returns
\* exactly the transactions dated on that day, at any time of the day.
C13_InclusiveByDay ==
    /\ (Stored /\ load.cl.filterMemberType = FilterAll
               /\ load.cl.filterPaymentMethod = FilterAll) =>
          \A i \in 1 .. Len(store) :
              Kept(store[i]) <=> store[i].transactionDate.day \in RangeDays
    /\ (load.phase = "running" /\ load.dpc = "ci") =>
          \A i \in 1 .. Len(store) :
              (\E j \in 1 .. Len(load.dayTransactions) : load.dayTransactions[j] = store[i])
                  <=> store[i].transactionDate.day = DateStr(load.d)

\* sum of finalAmount over the transactions of txs whose field has the value key
AmountOf(txs, field, key) ==
    SumOf({ i \in 1 .. Len(txs) : txs[i][field] = key },
          [i \in 1 .. Len(txs) |-> txs[i].finalAmount])

\* position in txs of the first transaction whose field has the value key
FirstMet(txs, field, key) ==
    CHOOSE i \in 1 .. Len(txs) :
        /\ txs[i][field] = key
        /\ \A j \in 1 .. i - 1 : txs[j][field] # key

\* key has the highest sum in txs, and is met first among the keys that have it
IsTop(txs, field, key) ==
    /\ \E i \in 1 .. Len(txs) : txs[i][field] = key
    /\ \A j \in 1 .. Len(txs) :
          LET other == txs[j][field]
          IN  \/ AmountOf(txs, field, key) > AmountOf(txs, field, other)
              \/ /\ AmountOf(txs, field, key) = AmountOf(txs, field, other)
                 /\ FirstMet(txs, field, key) <= FirstMet(txs, field, other)

\* C14: topMembershipType and topPaymentMethod are the membership type and the
\* payment method with the highest sum of finalAmount over all transactions
\* read, sales and refunds together; among keys sharing the highest sum the
\* one met first in the transaction sequence is chosen.
C14_TopKeys ==
    (StatsComputed /\ StatsInput # << >>) =>
        /\ IsTop(StatsInput, "membershipType", stats.topMembershipType)
        /\ IsTop(StatsInput, "paymentMethod", stats.topPaymentMethod)

\* a sale and a refund of the same amount under different keys: the sums are
\* equal and the keys of the first transaction are chosen
C14_Witness ==
    /\ StatsComputed
    /\ Len(StatsInput) = 2
    /\ StatsInput[1].isRefund # StatsInput[2].isRefund
    /\ StatsInput[1].membershipType # StatsInput[2].membershipType
    /\ StatsInput[1].paymentMethod # StatsInput[2].paymentMethod
    /\ StatsInput[1].finalAmount = StatsInput[2].finalAmount
    /\ stats.topMembershipType = StatsInput[1].membershipType
    /\ stats.topPaymentMethod = StatsInput[1].paymentMethod

\* C17: a sale whose items cannot be parsed counts as a sale without items;
\* whatever the payloads, a load that has completed for a range with
\* startDate <= endDate displays the reports of the range, that of startDate
\* among them.
C17_ReportsDespiteMalformedItems ==
    (load.phase = "finished" /\ ValidRange) =>
        \E i \in 1 .. Len(dailyReports) : dailyReports[i].date = load.cl.dateRange.startDate

\* C18: the ratios shown for a day never divide by zero: the average
\* transaction is 0 when the day's transactionCount is 0 and netRevenue /
\* transactionCount otherwise, the revenue per check-in is 0 when
\* memberCheckIns is 0 and netRevenue / memberCheckIns otherwise.
C18_RatiosGuarded ==
    \A i \in 1 .. Len(dailyReports) :
        LET r == dailyReports[i]
            card == ReportCards[i]
        IN  /\ card.avgTransaction.den # 0
            /\ card.revenuePerCheckIn.den # 0
            /\ r.transactionCount = 0 => SameNumber(card.avgTransaction, Number(0))
            /\ r.memberCheckIns = 0 => SameNumber(card.revenuePerCheckIn, Number(0))
            /\ r.transactionCount # 0 =>
                  SameNumber(card.avgTransaction, Quotient(r.netRevenue, r.transactionCount))
            /\ r.memberCheckIns # 0 =>
                  SameNumber(card.revenuePerCheckIn, Quotient(r.netRevenue, r.memberCheckIns))

\* the cards of a day with revenue and no check-in and of a day with a
\* check-in and no transaction
C18_Witness ==
    \E i, j \in 1 .. Len(dailyReports) :
        /\ dailyReports[i].netRevenue > 0 /\ dailyReports[i].memberCheckIns = 0
        /\ dailyReports[j].transactionCount = 0 /\ dailyReports[j].memberCheckIns > 0

\* C20: once a load has completed, the summary stats are those of the
\* filtered list that this load stored in transactions, never those of the
\* list of an earlier load or of the initial empty list.
C20_StatsOfStoredList ==
    StatsComputed => stats = CalculateStats(transactions)

\* C15: exportToCSV called with an empty sequence shows the "No data to
\* export" notice and hands no file to the browser, not even a header row.
C15_EmptyExportNoFile ==
    [][ \A button \in ExportButtons :
            (Click(button) /\ ExportData(button) = << >>) =>
                (toast' = NoDataToast /\ exported' = exported) ]_vars

\* the notice is up, no file was ever handed over, and the table has rows
C15_Witness ==
    /\ toast = NoDataToast
    /\ exported = NoFile
    /\ transactions # << >>

\* C16: for a non-empty sequence exportToCSV emits the field names of the
\* first record as header and then one row per record in input order; a
\* string value that contains the delimiter is wrapped in quotes, every
\* other value is emitted unquoted.
C16_HeaderAndRows ==
    [][ \A button \in ExportButtons :
            (Click(button) /\ ExportData(button) # << >>) =>
                LET data == ExportData(button)
                    file == exported'[1]
                IN  /\ Len(exported') = 1
                    /\ file.headers = ObjectKeys(data[1])
                    /\ Len(file.rows) = Len(data)
                    /\ \A i \in 1 .. Len(data) :
                          /\ Len(file.rows[i]) = Len(ObjectKeys(data[i]))
                          /\ \A k \in 1 .. Len(file.rows[i]) :
                                LET key == ObjectKeys(data[i])[k]
                                IN  /\ file.rows[i][k].value = data[i][key]
                                    /\ file.rows[i][k].quoted <=>
                                          (TypeOf(key) = "string"
                                             /\ IncludesComma(key, data[i][key])) ]_vars

\* a file of two transaction rows, the items of one quoted and of the other not
C16_Witness ==
    /\ toast = ExportSuccessToast
    /\ exported # NoFile
    /\ exported[1].filename.name = "all_transactions"
    /\ Len(exported[1].rows) = 2
    /\ \E k \in 1 .. Len(exported[1].headers) :
          /\ exported[1].headers[k] = "items"
          /\ exported[1].rows[1][k].quoted
          /\ ~exported[1].rows[2][k].quoted
          /\ exported[1].rows[1][k].value = transactions[1].items

\* C19: when a fetch of transactions or check-ins fails during a load, that
\* load shows the "Error loading reports" toast.
C19_FetchFailureSurfaced ==
    (load.phase = "finished" /\ load.failedFetch # {}) => toast = ErrorToast

\* C22: sales and refunds partition the transactions: the number of sales
\* plus the number of refunds is the transaction count, in the list shown, in
\* the list the stats were computed from and in the rows of each day,
\* whatever isRefund values are stored.
C22_SalesRefundsPartition ==
    /\ Len(Sales(transactions)) + Len(Refunds(transactions)) = Len(transactions)
    /\ StatsComputed =>
          Len(Sales(StatsInput)) + Len(Refunds(StatsInput)) = stats.totalTransactions
    /\ (load.phase = "running" /\ load.dpc = "ci") =>
          Len(Sales(load.dayTransactions)) + Len(Refunds(load.dayTransactions))
              = Len(load.dayTransactions)

\* sum of a numeric field over the daily reports shown
DailySum(field) ==
    SumOf(1 .. Len(dailyReports), [i \in 1 .. Len(dailyReports) |-> dailyReports[i][field]])

\* C27: after a completed load the daily reports cover the transactions of
\* the summary: their transactionCount adds up to the number of listed
\* transactions and their netRevenue to the net revenue of the listed
\* transactions, for every setting of the two filters (stated for a browser
\* in UTC, where the day loop visits each day of the range once).
C27_DailyCoversSummary ==
    (load.phase = "finished" /\ load.dpc = "done" /\ load.tpc = "done" /\ zone = UTC) =>
        /\ DailySum("transactionCount") = Len(transactions)
        /\ DailySum("netRevenue") = AmountWhere(transactions, 0) - AmountWhere(transactions, 1)

\* the fields a CSV reader finds in the text of a cell, and in a row of a file
CellFields(key, cell) == IF cell.quoted THEN 1 ELSE 1 + CommasInText(key, cell.value)

RowFields(file, i) ==
    SumOf(1 .. Len(file.rows[i]),
          [k \in 1 .. Len(file.rows[i]) |-> CellFields(file.headers[k], file.rows[i][k])])

\* C28: every row of an exported file has as many comma-separated fields
\* outside quotes as the header row, also for daily reports, whose topItems
\* and paymentMethods are lists, and for strings that contain commas.
C28_RowsMatchHeader ==
    exported # NoFile =>
        \A i \in 1 .. Len(exported[1].rows) :
            RowFields(exported[1], i) = Len(exported[1].headers)

\* the table as it was when it held its first n rows
Snapshot(n) == SubSeq(store, 1, n)

\* C21: the figures of one load come from one snapshot of the store: there is
\* a state of the table from which both the listed transactions and every
\* daily report of the completed load are derived, also when rows are
\* inserted while the queries of the load are in progress.
C21_OneSnapshot ==
    (load.phase = "finished" /\ load.tpc = "done" /\ load.dpc = "done") =>
        \E n \in 0 .. Len(store) :
            /\ transactions = ApplyFilters(AllTransactions(Snapshot(n), load.cl.dateRange),
                                           load.cl.filterMemberType,
                                           load.cl.filterPaymentMethod)
            /\ \A i \in 1 .. Len(dailyReports) :
                  dailyReports[i] =
                      DailyReport(dailyReports[i].date,
                                  DayTransactions(Snapshot(n), dailyReports[i].date),
                                  DayCheckIns(checkIns, dailyReports[i].date))

\* every call made so far has returned, the last one with its lists stored
AllLoadsFinished ==
    /\ load.phase = "finished" /\ load.tpc = "done" /\ load.dpc = "done"
    /\ ~InFlight(earlier)

\* C25: once all overlapping loads have finished, the transactions and the
\* daily reports shown are those of the current filter and date settings,
\* in whatever order the responses arrived.
C25_LatestSettingsShown ==
    AllLoadsFinished =>
        /\ transactions = ApplyFilters(AllTransactions(store, dateRange), filterMemberType,
                                       filterPaymentMethod)
        /\ \A day \in dateRange.startDate .. dateRange.endDate :
              \E i \in 1 .. Len(dailyReports) : dailyReports[i].date = day
        /\ \A i \in 1 .. Len(dailyReports) :
              dailyReports[i].date \in dateRange.startDate .. dateRange.endDate

\* C26: loading is true whenever a load is in flight, so that Refresh cannot
\* start a load while another one is running.
C26_LoadingWhileInFlight ==
    (InFlight(load) \/ InFlight(earlier)) => loading

\* the ranking cashier < manager < admin; any other role, and no profile, rank 0
RankOrder == << "cashier", "manager", "admin" >>
Rank(role) ==
    IF \E k \in 1 .. Len(RankOrder) : RankOrder[k] = role
    THEN CHOOSE k \in 1 .. Len(RankOrder) : RankOrder[k] = role
    ELSE 0
ProfileRole == IF userProfile = Null THEN "none" ELSE userProfile[1].role

\* C23: canAccess(required) holds iff the rank of the profile's role is at
\* least the rank of the required role, an unknown role and a missing profile
\* ranking 0; the Reports entry and content are shown only to manager and
\* admin, the Settings entry and content only to admin.
C23_RoleGating ==
    /\ \A required \in Roles : CanAccess(required) <=> Rank(ProfileRole) >= Rank(required)
    /\ (EntryShown("reports") \/ ContentShown("reports")) => ProfileRole \in {"manager", "admin"}
    /\ (EntryShown("settings") \/ ContentShown("settings")) => ProfileRole = "admin"

\* a manager on the Reports tab: the content is shown, the Settings entry is not
C23_Witness ==
    /\ ProfileRole = "manager"
    /\ activeTab = "reports"
    /\ ContentShown("reports")
    /\ ~EntryShown("settings")

\* C29: under any interleaving of initializeUser runs the users table holds
\* at most one profile with the user's email.
C29_OneProfilePerEmail ==
    Cardinality({ i \in 1 .. Len(users) : users[i].email = User.email }) <= 1

\* C24: each completed checkout creates exactly one Transaction record.
C24_CheckoutCreatesTransaction ==
    [][ProcessPayment => Len(store') = Len(store) + 1]_vars

\* C30: every addToCart call adds one line of quantity 1 at the end of the
\* cart, also when several calls are made before the next render; the cart
\* is empty after clearCart and after processPayment.
C30_CartOperations ==
    [][ /\ AddToCart =>
             \E item \in MenuItems :
                 cartItems' = Append(cartItems, Line(item.name, item.price, 1))
        /\ (ClearCart \/ ProcessPayment) => cartItems' = << >> ]_vars

====
